---- MODULE Spec2Model ----
(***************************************************************************)
(* Access-enforcement reconciliation of saas-network-control.              *)
(*                                                                         *)
(* The remote device holds iptables DROP rules keyed by (address, id);     *)
(* request handlers, the hourly cron job and the M-Pesa callback read and  *)
(* write the stored records and send check / add / delete commands to the  *)
(* device.  Every handler is an async function: it runs atomically up to   *)
(* each await, so a handler is a sequence of steps and the steps of        *)
(* concurrently running handlers interleave.                               *)
(***************************************************************************)
EXTENDS Integers, Sequences, FiniteSets, TLC

\* ---------------------------------------------------------------- bounds
NumTasks == 2       \* handler invocations that may be in flight at once
MaxTime == 2        \* the clock runs from 1 to MaxTime
MaxDate == 3        \* dates sent in request bodies are 0..MaxDate
MaxRules == 3       \* cap of identical rules in the INPUT chain per key
MaxBill == 3        \* cap of billing records and window writes per checkout

Tasks == 1..NumTasks
ClientIds == {"c1"}
SubIds == {"s1"}
Ids == ClientIds \cup SubIds
NoIp == "noip"      \* a document without ipAddress (falsy in the handlers)
IPs == {"ip1", "ip2"}
Keys == IPs \X Ids
DateInputs == 0..MaxDate
CheckoutIds == {"ck1"}
Plans == {"p1"}
TxIds == {"tx1"}
Epoch == 0          \* new Date(0), before every instant of the clock
BadIp == "ip1;x"    \* an ipAddress string that is not an address

VARIABLES
    now,        \* current instant (new Date())
    devUp,      \* the device accepts SSH connections
    rules,      \* rules[k]: number of DROP rules with source k[1], comment block-k[2]
    clients,    \* Client collection: clientId -> document
    subs,       \* Subscriber collection: subscriberId -> document
    pending,    \* pendingCheckouts: CheckoutRequestID -> subscriberId
    billing,    \* Billing collection: CheckoutRequestID -> number of paid records
    task,       \* task[t]: the handler invocation run by t, its position and locals
    prev,       \* the invocation completed last: what a setNetworkAccess call
                \* did, or that a handler's remote command was rejected
    applied,    \* applied[ck]: window writes made for confirmations of ck
    storedAt,   \* storedAt[ck]: instant of pendingCheckouts.set for ck (0: no entry)
    plans       \* ServicePlan collection: plans[p] is "none" before the plan with
                \* _id p is stored, "stored", then "deleted" (an _id is not reused)

vars ==
    <<now, devUp, rules, clients, subs, pending, billing, task, prev, applied,
      storedAt, plans>>

\* ------------------------------------------------------------- documents
\* One shape for Client and Subscriber documents; a Client has no start date
\* and no plan.  NullDoc stands for "no such document" (findById gives null).
NullDoc ==
    [id |-> "none", ip |-> NoIp, start |-> 0, end |-> 0, status |-> "none",
     plan |-> "none"]

IdleTask ==
    [op |-> "idle", pc |-> "idle", ret |-> "idle", doc |-> NullDoc,
     key |-> <<NoIp, "none">>, shouldBlock |-> FALSE, exists |-> FALSE,
     probeErr |-> FALSE, callNow |-> 0, mis |-> FALSE, nAdd |-> 0, nDel |-> 0,
     res |-> "none", todo |-> <<>>, oldIp |-> NoIp, ck |-> "none",
     mod |-> {}, nst |-> "none", callEnd |-> 0, cmd |-> "none",
     logged |-> FALSE, unmatched |-> FALSE, entryAt |-> 0, wrote |-> FALSE,
     ost |-> "none", leaked |-> 0, rc |-> 0, nProbe |-> 0, nCmd |-> 0,
     payAt |-> 0]

Idle(t) == task[t].pc = "idle"

\* ServicePlan.findById(p) finds a document
PlanExists(p) == p \in Plans /\ plans[p] = "stored"
Others(t) == Tasks \ {t}

Init ==
    /\ now = 1
    /\ devUp = TRUE
    /\ rules = [k \in Keys |-> 0]
    /\ clients = [c \in ClientIds |-> NullDoc]
    /\ subs = [s \in SubIds |-> NullDoc]
    /\ pending = [ck \in CheckoutIds |-> "none"]
    /\ billing = [ck \in CheckoutIds \cup TxIds |-> 0]
    /\ task = [t \in Tasks |-> IdleTask]
    /\ prev = "NA"
    /\ applied = [ck \in CheckoutIds |-> 0]
    /\ storedAt = [ck \in CheckoutIds |-> 0]
    /\ plans = [p \in Plans |-> "none"]

\* ------------------------------------------------- utils/networkControl.js
\* setNetworkAccess: shouldBlock = client.subscriptionEndDate < now
ShouldBlock(doc, n) == doc.end < n

\* The command lines are built by interpolating the address and the id
\* (lines 33, 43, 48).  For a key of Keys the line is the iptables command
\* meant; for any other string it is another command line, which matches,
\* appends and removes no rule of the keys counted in `rules`.
\* iptables -C exits 0 exactly when a matching rule is in the chain
RuleCheck(r, k) == k \in DOMAIN r /\ r[k] > 0

\* iptables -A appends one more rule, whether or not an identical one is there
AddRule(r, k) == IF k \in DOMAIN r THEN [r EXCEPT ![k] = @ + 1] ELSE r

\* iptables -D removes one matching rule; with none it exits non-zero, which
\* executeSSHCommand resolves like any other exit code
DeleteRule(r, k) ==
    IF k \in DOMAIN r THEN [r EXCEPT ![k] = IF @ > 0 THEN @ - 1 ELSE 0] ELSE r

\* Handlers whose body is wrapped in try/catch answer 500 when a remote call
\* rejects; in the others the rejection leaves the async handler unanswered.
CaughtOps == {"SubPost", "SubPut", "SubDelete", "Initiate", "Callback", "AdminPay"}

\* a remote call (or setNetworkAccess) returns to the handler's continuation
Return(tk) ==
    IF tk.ret = "done" THEN [tk EXCEPT !.pc = "done", !.res = "ok"]
    ELSE [tk EXCEPT !.pc = tk.ret]

\* executeSSHCommand rejected in addBlockRule / deleteBlockRule
Throw(tk) ==
    [tk EXCEPT !.pc = "done",
               !.res = IF tk.op \in CaughtOps THEN "500" ELSE "threw"]

\* setNetworkAccess(doc), up to its first await: now and shouldBlock are
\* computed, then the check command is sent (lines 63-65)
SnaEnter(tk, doc, ret) ==
    [tk EXCEPT !.pc = "probe", !.ret = ret, !.key = <<doc.ip, doc.id>>,
               !.shouldBlock = ShouldBlock(doc, now), !.callNow = now,
               !.callEnd = doc.end,
               !.mis = (ShouldBlock(doc, now) # RuleCheck(rules, <<doc.ip, doc.id>>)),
               !.exists = FALSE, !.probeErr = FALSE, !.nProbe = 0, !.nCmd = 0]

\* blockClient(ip, id) / unblockClient(ip, id), up to the await of the command
BlockEnter(tk, ip, id, ret) == [tk EXCEPT !.pc = "add", !.ret = ret, !.key = <<ip, id>>]
UnblockEnter(tk, ip, id, ret) == [tk EXCEPT !.pc = "del", !.ret = ret, !.key = <<ip, id>>]

\* a variant that sends the check command again after a rejected connection
ProbeRetried(tk, ex, err) ==
    LET tk1 == [tk EXCEPT !.exists = ex, !.probeErr = err, !.nProbe = @ + 1]
    IN  IF err THEN [tk1 EXCEPT !.pc = "probe"]
        ELSE IF tk.shouldBlock /\ ~ex THEN [tk1 EXCEPT !.pc = "add"]
        ELSE IF ~tk.shouldBlock /\ ex THEN [tk1 EXCEPT !.pc = "del"]
        ELSE Return(tk1)

\* ruleExists settles (a rejected connection is caught and gives false), then
\* setNetworkAccess picks its branch (lines 32-40, 65-70)
ProbeSettled(tk, ex, err) ==
    LET tk1 == [tk EXCEPT !.exists = ex, !.probeErr = err, !.nProbe = @ + 1]
    IN  IF tk.shouldBlock /\ ~ex THEN [tk1 EXCEPT !.pc = "add"]
        ELSE IF ~tk.shouldBlock /\ ex THEN [tk1 EXCEPT !.pc = "del"]
        ELSE Return(tk1)

Probe(t) ==
    /\ task[t].pc = "probe"
    /\ task' = [task EXCEPT ![t] =
                ProbeSettled(task[t], devUp /\ RuleCheck(rules, task[t].key), ~devUp)]
    /\ UNCHANGED <<now, devUp, rules, clients, subs, pending, storedAt, billing, plans, prev, applied>>

\* what ruleExists returned to its caller: a boolean, true for exit status 0
RuleExistsResult(tk) == IF tk.exists THEN "Present" ELSE "Absent"

\* addBlockRule settles: the device appends the rule (exit status 0), or the
\* connection fails; blockClient then writes its log line (lines 42-45, 52-55)
Add(t) ==
    /\ task[t].pc = "add"
    /\ (devUp /\ task[t].key \in Keys) => rules[task[t].key] < MaxRules
    /\ rules' = IF devUp THEN AddRule(rules, task[t].key) ELSE rules
    /\ task' = [task EXCEPT ![t] =
                IF devUp
                THEN Return([task[t] EXCEPT !.nAdd = @ + 1, !.cmd = "zero",
                                            !.logged = TRUE, !.nCmd = @ + 1])
                ELSE Throw([task[t] EXCEPT !.cmd = "rejected", !.nCmd = @ + 1])]
    /\ UNCHANGED <<now, devUp, clients, subs, pending, storedAt, billing, plans, prev, applied>>

\* deleteBlockRule settles: iptables -D exits 0 when it removed a rule and
\* non-zero when none matched, and executeSSHCommand resolves either way;
\* unblockClient then writes its log line (lines 47-50, 57-60)
Del(t) ==
    /\ task[t].pc = "del"
    /\ rules' = IF devUp THEN DeleteRule(rules, task[t].key) ELSE rules
    /\ task' = [task EXCEPT ![t] =
                IF devUp
                THEN Return([task[t] EXCEPT !.nDel = @ + 1, !.logged = TRUE,
                                !.nCmd = @ + 1,
                                !.cmd = IF RuleCheck(rules, task[t].key)
                                        THEN "zero" ELSE "nonzero"])
                ELSE Throw([task[t] EXCEPT !.cmd = "rejected", !.nCmd = @ + 1])]
    /\ UNCHANGED <<now, devUp, clients, subs, pending, storedAt, billing, plans, prev, applied>>

\* the positions at which a handler awaits executeSSHCommand
RemotePcs == {"probe", "add", "del"}

\* executeSSHCommand, the session is ready and conn.exec calls back with an
\* error: the promise rejects and conn.end() is not called (lines 15-16), so
\* the session stays open; ruleExists turns the rejection into false
ExecError(t) ==
    /\ task[t].pc \in RemotePcs
    /\ devUp
    /\ LET tk == [task[t] EXCEPT !.leaked = @ + 1]
       IN  task' = [task EXCEPT ![t] =
                IF tk.pc = "probe" THEN ProbeSettled(tk, FALSE, TRUE)
                ELSE Throw([tk EXCEPT !.cmd = "rejected", !.nCmd = @ + 1])]
    /\ UNCHANGED <<now, devUp, rules, clients, subs, pending, storedAt, billing, plans,
                   prev, applied>>

\* executeSSHCommand, the host accepted the session and the command never
\* completes: no 'close' and no 'error' event comes, and the promise has no
\* timer (lines 12-29), so the await never returns
Stall(t) ==
    /\ task[t].pc \in RemotePcs
    /\ devUp
    /\ task' = [task EXCEPT ![t] = [task[t] EXCEPT !.pc = "hung"]]
    /\ UNCHANGED <<now, devUp, rules, clients, subs, pending, storedAt, billing, plans,
                   prev, applied>>

\* what one setNetworkAccess call did
Outcome(tk) ==
    IF tk.res # "ok" THEN "failed"
    ELSE IF tk.nAdd > 0 THEN "block"
    ELSE IF tk.nDel > 0 THEN "unblock"
    ELSE "none"

SnaOps == {"setNetworkAccess"}

\* one call of the exported setNetworkAccess on a stored client document
Reconcile(t, c) ==
    /\ Idle(t)
    /\ clients[c] # NullDoc
    /\ task' = [task EXCEPT ![t] =
                SnaEnter([IdleTask EXCEPT !.op = "setNetworkAccess", !.doc = clients[c]],
                         clients[c], "done")]
    /\ UNCHANGED <<now, devUp, rules, clients, subs, pending, storedAt, billing, plans, prev, applied>>

\* the invocation is over; its task can run the next one
Finish(t) ==
    /\ task[t].pc = "done"
    /\ task' = [task EXCEPT ![t] = IdleTask]
    /\ prev' = IF task[t].op \in SnaOps THEN Outcome(task[t])
                ELSE IF task[t].cmd = "rejected" THEN "rejected"
                ELSE "NA"
    /\ UNCHANGED <<now, devUp, rules, clients, subs, pending, storedAt, billing, plans, applied>>

\* ------------------------------------------------------------ documents
Fields == {"id", "ip", "start", "end", "status", "plan"}

NewClient(c, ip, e) ==
    [id |-> c, ip |-> ip, start |-> 0, end |-> e, status |-> "none", plan |-> "none"]

\* Object.assign(doc, req.body): the body's fields overwrite the document's
Assign(doc, body) ==
    [f \in Fields |-> IF f \in DOMAIN body THEN body[f] ELSE doc[f]]

\* the paths Object.assign left modified (a path set to its old value is not)
Modified(doc, body) == {f \in DOMAIN body : body[f] # doc[f]}

\* doc.save() of a loaded document writes its modified paths only
SaveDoc(db, id, doc, mod) ==
    [db EXCEPT ![id] = [f \in Fields |-> IF f \in mod THEN doc[f] ELSE @[f]]]

\* save() of a document with modified paths that was deleted meanwhile rejects;
\* with no modified path save() sends nothing
SaveFails(db, doc, mod) == mod # {} /\ db[doc.id] = NullDoc
Saved(db, doc, mod) == IF mod = {} THEN db ELSE SaveDoc(db, doc.id, doc, mod)

RemoveDoc(db, id) == [db EXCEPT ![id] = NullDoc]

ClientBodies == [ip : IPs, end : DateInputs]

\* ------------------------------------------- routes/clients.js (clients)
\* router.post('/'): insert, then mark active when the end date is ahead
ClientPost(t, c, body) ==
    /\ Idle(t)
    /\ LET doc == NewClient(c, body.ip, body.end)
           tk == [IdleTask EXCEPT !.op = "ClientPost", !.doc = doc]
       IN  IF clients[c] # NullDoc
           THEN /\ task' = [task EXCEPT ![t] = Throw(tk)]    \* duplicate clientId
                /\ UNCHANGED clients
           ELSE /\ clients' = [clients EXCEPT ![c] = doc]
                /\ task' = [task EXCEPT ![t] =
                      IF doc.end > now
                      THEN [tk EXCEPT !.pc = "cpost_status", !.doc.status = "active",
                                      !.mod = {"status"}]
                      ELSE [tk EXCEPT !.pc = "done", !.res = "ok"]]
    /\ UNCHANGED <<now, devUp, rules, subs, pending, storedAt, billing, plans, prev, applied>>

ClientPostStatus(t) ==
    /\ task[t].pc = "cpost_status"
    /\ LET tk == task[t]
       IN  IF SaveFails(clients, tk.doc, tk.mod)
           THEN /\ task' = [task EXCEPT ![t] = Throw(tk)]
                /\ UNCHANGED clients
           ELSE /\ clients' = Saved(clients, tk.doc, tk.mod)
                /\ task' = [task EXCEPT ![t] = [tk EXCEPT !.pc = "done", !.res = "ok"]]
    /\ UNCHANGED <<now, devUp, rules, subs, pending, storedAt, billing, plans, prev, applied>>

\* router.put('/:id'): findById, Object.assign
ClientPut(t, c, body) ==
    /\ Idle(t)
    /\ LET tk == [IdleTask EXCEPT !.op = "ClientPut"]
       IN  task' = [task EXCEPT ![t] =
                IF clients[c] = NullDoc THEN [tk EXCEPT !.pc = "done", !.res = "404"]
                ELSE [tk EXCEPT !.pc = "cput_save", !.doc = Assign(clients[c], body),
                                !.oldIp = clients[c].ip,
                                !.mod = Modified(clients[c], body)]]
    /\ UNCHANGED <<now, devUp, rules, clients, subs, pending, storedAt, billing, plans, prev, applied>>

\* ... save, then block or unblock whatever the device holds (lines 27-35)
ClientPutSave(t) ==
    /\ task[t].pc = "cput_save"
    /\ LET tk == task[t]
       IN  IF SaveFails(clients, tk.doc, tk.mod)
           THEN /\ task' = [task EXCEPT ![t] = Throw(tk)]
                /\ UNCHANGED clients
           ELSE /\ clients' = Saved(clients, tk.doc, tk.mod)
                /\ task' = [task EXCEPT ![t] =
                      IF tk.doc.end < now
                      THEN BlockEnter([tk EXCEPT !.nst = "expired"],
                                      tk.doc.ip, tk.doc.id, "cput_status")
                      ELSE UnblockEnter([tk EXCEPT !.nst = "active"],
                                        tk.doc.ip, tk.doc.id, "cput_status")]
    /\ UNCHANGED <<now, devUp, rules, subs, pending, storedAt, billing, plans, prev, applied>>

\* ... subscriptionStatus is set after the command returned, and saved
ClientPutStatus(t) ==
    /\ task[t].pc = "cput_status"
    /\ LET tk == [task[t] EXCEPT !.doc.status = task[t].nst,
                                 !.mod = Modified(task[t].doc, [status |-> task[t].nst])]
       IN  IF SaveFails(clients, tk.doc, tk.mod)
           THEN /\ task' = [task EXCEPT ![t] = Throw(tk)]
                /\ UNCHANGED clients
           ELSE /\ clients' = Saved(clients, tk.doc, tk.mod)
                /\ task' = [task EXCEPT ![t] = [tk EXCEPT !.pc = "done", !.res = "ok"]]
    /\ UNCHANGED <<now, devUp, rules, subs, pending, storedAt, billing, plans, prev, applied>>

\* router.delete('/:id'): findById, unblockClient
ClientDelete(t, c) ==
    /\ Idle(t)
    /\ LET tk == [IdleTask EXCEPT !.op = "ClientDelete", !.doc = clients[c]]
       IN  task' = [task EXCEPT ![t] =
                IF clients[c] = NullDoc THEN [tk EXCEPT !.pc = "done", !.res = "404"]
                ELSE UnblockEnter(tk, clients[c].ip, clients[c].id, "cdel_remove")]
    /\ UNCHANGED <<now, devUp, rules, clients, subs, pending, storedAt, billing, plans, prev, applied>>

\* ... client.remove()
ClientDeleteRemove(t) ==
    /\ task[t].pc = "cdel_remove"
    /\ clients' = RemoveDoc(clients, task[t].doc.id)
    /\ task' = [task EXCEPT ![t] = [task[t] EXCEPT !.pc = "done", !.res = "ok"]]
    /\ UNCHANGED <<now, devUp, rules, subs, pending, storedAt, billing, plans, prev, applied>>

\* --------------------------------------- routes/clients.js (subscribers)
NewSub(s, body) ==
    [id |-> s, ip |-> body.ip, start |-> body.start, end |-> body.end,
     status |-> "pending", plan |-> body.plan]

\* request bodies; ip = NoIp is a body without ipAddress
SubBodies == [ip : IPs \cup {NoIp}, start : DateInputs, end : DateInputs, plan : Plans]
SubUpdates == [ip : IPs \cup {NoIp}, start : DateInputs, end : DateInputs]

Present(body) == IF body.ip = NoIp THEN [start |-> body.start, end |-> body.end] ELSE body

\* router.post('/'): validateSubscriber, duplicate lookup, the plan named by
\* the body is looked up
SubPost(t, s, body) ==
    /\ Idle(t)
    /\ LET tk == [IdleTask EXCEPT !.op = "SubPost", !.doc = NewSub(s, body)]
       IN  task' = [task EXCEPT ![t] =
                IF body.start >= body.end \/ subs[s] # NullDoc \/ ~PlanExists(body.plan)
                THEN [tk EXCEPT !.pc = "done", !.res = "400"]
                ELSE [tk EXCEPT !.pc = "spost_save"]]
    /\ UNCHANGED <<now, devUp, rules, clients, subs, pending, storedAt, billing, plans, prev, applied>>

\* ... insert; an entitled subscriber with an address becomes active
SubPostSave(t) ==
    /\ task[t].pc = "spost_save"
    /\ LET tk == task[t]
       IN  IF subs[tk.doc.id] # NullDoc
           THEN /\ task' = [task EXCEPT ![t] = Throw(tk)]    \* duplicate key
                /\ UNCHANGED subs
           ELSE /\ subs' = [subs EXCEPT ![tk.doc.id] = tk.doc]
                /\ task' = [task EXCEPT ![t] =
                      IF tk.doc.ip # NoIp /\ tk.doc.end > now /\ tk.doc.start <= now
                      THEN [tk EXCEPT !.pc = "spost_status", !.doc.status = "active",
                                      !.mod = {"status"}]
                      ELSE [tk EXCEPT !.pc = "done", !.res = "ok"]]
    /\ UNCHANGED <<now, devUp, rules, clients, pending, storedAt, billing, plans, prev, applied>>

\* ... save the status, then unblockClient
SubPostStatus(t) ==
    /\ task[t].pc = "spost_status"
    /\ LET tk == task[t]
       IN  IF SaveFails(subs, tk.doc, tk.mod)
           THEN /\ task' = [task EXCEPT ![t] = Throw(tk)]
                /\ UNCHANGED subs
           ELSE /\ subs' = Saved(subs, tk.doc, tk.mod)
                /\ task' = [task EXCEPT ![t] =
                      UnblockEnter(tk, tk.doc.ip, tk.doc.id, "done")]
    /\ UNCHANGED <<now, devUp, rules, clients, pending, storedAt, billing, plans, prev, applied>>

\* router.put('/:id'): findById, oldIpAddress, Object.assign
SubPut(t, s, body) ==
    /\ Idle(t)
    /\ LET tk == [IdleTask EXCEPT !.op = "SubPut"]
       IN  task' = [task EXCEPT ![t] =
                IF subs[s] = NullDoc THEN [tk EXCEPT !.pc = "done", !.res = "404"]
                ELSE [tk EXCEPT !.pc = "sput_save", !.oldIp = subs[s].ip,
                                !.ost = subs[s].status,
                                !.doc = Assign(subs[s], Present(body)),
                                !.mod = Modified(subs[s], Present(body))]]
    /\ UNCHANGED <<now, devUp, rules, clients, subs, pending, storedAt, billing, plans, prev, applied>>

\* a variant of isActive that leaves the start date out
IsActiveNoStart(doc, n) == ~(doc.end < n)

\* isExpired and isActive of the update route (lines 275-276)
IsExpired(doc, n) == doc.end < n
IsActive(doc, n) == ~IsExpired(doc, n) /\ doc.start <= n

\* the block or unblock of the current address (lines 285-291)
SubPutSet(tk) ==
    IF tk.shouldBlock THEN BlockEnter(tk, tk.doc.ip, tk.doc.id, "sput_status")
    ELSE UnblockEnter(tk, tk.doc.ip, tk.doc.id, "sput_status")

\* ... save; ipChanged, isExpired, isActive; the old address is unblocked first
SubPutSave(t) ==
    /\ task[t].pc = "sput_save"
    /\ LET isExpired == IsExpired(task[t].doc, now)
           isActive == IsActive(task[t].doc, now)
           tk == [task[t] EXCEPT !.shouldBlock = ~isActive, !.callNow = now,
                      !.nst = IF isActive THEN "active"
                              ELSE IF isExpired THEN "inactive" ELSE "pending"]
           ipChanged == tk.doc.ip # tk.oldIp
       IN  IF SaveFails(subs, tk.doc, tk.mod)
           THEN /\ task' = [task EXCEPT ![t] = Throw(tk)]
                /\ UNCHANGED subs
           ELSE /\ subs' = Saved(subs, tk.doc, tk.mod)
                /\ task' = [task EXCEPT ![t] =
                      IF tk.doc.ip = NoIp THEN [tk EXCEPT !.pc = "done", !.res = "ok"]
                      ELSE IF ipChanged /\ tk.oldIp # NoIp
                      THEN UnblockEnter(tk, tk.oldIp, tk.doc.id, "sput_set")
                      ELSE SubPutSet(tk)]
    /\ UNCHANGED <<now, devUp, rules, clients, pending, storedAt, billing, plans, prev, applied>>

\* ... after the old address was unblocked
SubPutNew(t) ==
    /\ task[t].pc = "sput_set"
    /\ task' = [task EXCEPT ![t] = SubPutSet(task[t])]
    /\ UNCHANGED <<now, devUp, rules, clients, subs, pending, storedAt, billing, plans, prev, applied>>

\* ... the status is set after the command returned, and saved
SubPutStatus(t) ==
    /\ task[t].pc = "sput_status"
    /\ LET tk == [task[t] EXCEPT !.doc.status = task[t].nst,
                                 !.mod = Modified(task[t].doc, [status |-> task[t].nst])]
       IN  IF SaveFails(subs, tk.doc, tk.mod)
           THEN /\ task' = [task EXCEPT ![t] = Throw(tk)]
                /\ UNCHANGED subs
           ELSE /\ subs' = Saved(subs, tk.doc, tk.mod)
                /\ task' = [task EXCEPT ![t] = [tk EXCEPT !.pc = "done", !.res = "ok"]]
    /\ UNCHANGED <<now, devUp, rules, clients, pending, storedAt, billing, plans, prev, applied>>

\* router.delete('/:id'): findById, unblockClient when there is an address
SubDelete(t, s) ==
    /\ Idle(t)
    /\ LET tk == [IdleTask EXCEPT !.op = "SubDelete", !.doc = subs[s]]
       IN  task' = [task EXCEPT ![t] =
                IF subs[s] = NullDoc THEN [tk EXCEPT !.pc = "done", !.res = "404"]
                ELSE IF subs[s].ip # NoIp
                THEN UnblockEnter(tk, subs[s].ip, subs[s].id, "sdel_remove")
                ELSE [tk EXCEPT !.pc = "sdel_remove"]]
    /\ UNCHANGED <<now, devUp, rules, clients, subs, pending, storedAt, billing, plans, prev, applied>>

\* ... Subscriber.findByIdAndDelete
SubDeleteRemove(t) ==
    /\ task[t].pc = "sdel_remove"
    /\ subs' = RemoveDoc(subs, task[t].doc.id)
    /\ task' = [task EXCEPT ![t] = [task[t] EXCEPT !.pc = "done", !.res = "ok"]]
    /\ UNCHANGED <<now, devUp, rules, clients, pending, storedAt, billing, plans, prev, applied>>

\* --------------------------- the single-file server (jest.config.js:10-95)
\* sequence of the stored documents of a collection (Model.find())
RECURSIVE DocsOf(_, _)
DocsOf(db, S) ==
    IF S = {} THEN <<>>
    ELSE LET x == CHOOSE y \in S : TRUE
         IN  IF db[x] = NullDoc THEN DocsOf(db, S \ {x})
             ELSE <<db[x]>> \o DocsOf(db, S \ {x})

\* app.post('/api/clients'): save, then setNetworkAccess(client)
LegacyPost(t, c, body) ==
    /\ Idle(t)
    /\ LET doc == NewClient(c, body.ip, body.end)
           tk == [IdleTask EXCEPT !.op = "LegacyPost", !.doc = doc]
       IN  IF clients[c] # NullDoc
           THEN /\ task' = [task EXCEPT ![t] = Throw(tk)]
                /\ UNCHANGED clients
           ELSE /\ clients' = [clients EXCEPT ![c] = doc]
                /\ task' = [task EXCEPT ![t] = SnaEnter(tk, doc, "done")]
    /\ UNCHANGED <<now, devUp, rules, subs, pending, storedAt, billing, plans, prev, applied>>

\* app.put('/api/clients/:id'): findById, Object.assign
LegacyPut(t, c, body) ==
    /\ Idle(t)
    /\ LET tk == [IdleTask EXCEPT !.op = "LegacyPut"]
       IN  task' = [task EXCEPT ![t] =
                IF clients[c] = NullDoc THEN [tk EXCEPT !.pc = "done", !.res = "404"]
                ELSE [tk EXCEPT !.pc = "lput_save", !.doc = Assign(clients[c], body),
                                !.oldIp = clients[c].ip,
                                !.mod = Modified(clients[c], body)]]
    /\ UNCHANGED <<now, devUp, rules, clients, subs, pending, storedAt, billing, plans, prev, applied>>

\* ... save, then setNetworkAccess(client)
LegacyPutSave(t) ==
    /\ task[t].pc = "lput_save"
    /\ LET tk == task[t]
       IN  IF SaveFails(clients, tk.doc, tk.mod)
           THEN /\ task' = [task EXCEPT ![t] = Throw(tk)]
                /\ UNCHANGED clients
           ELSE /\ clients' = Saved(clients, tk.doc, tk.mod)
                /\ task' = [task EXCEPT ![t] = SnaEnter(tk, tk.doc, "done")]
    /\ UNCHANGED <<now, devUp, rules, subs, pending, storedAt, billing, plans, prev, applied>>

\* app.delete('/api/clients/:id'): setNetworkAccess with the end date at
\* new Date(0)
LegacyDelete(t, c) ==
    /\ Idle(t)
    /\ LET tk == [IdleTask EXCEPT !.op = "LegacyDelete", !.doc = clients[c]]
       IN  task' = [task EXCEPT ![t] =
                IF clients[c] = NullDoc THEN [tk EXCEPT !.pc = "done", !.res = "404"]
                ELSE SnaEnter(tk, [clients[c] EXCEPT !.end = Epoch], "ldel_remove")]
    /\ UNCHANGED <<now, devUp, rules, clients, subs, pending, storedAt, billing, plans, prev, applied>>

\* ... client.remove()
LegacyDeleteRemove(t) ==
    /\ task[t].pc = "ldel_remove"
    /\ clients' = RemoveDoc(clients, task[t].doc.id)
    /\ task' = [task EXCEPT ![t] = [task[t] EXCEPT !.pc = "done", !.res = "ok"]]
    /\ UNCHANGED <<now, devUp, rules, subs, pending, storedAt, billing, plans, prev, applied>>

\* the loop `for (const client of clients) await setNetworkAccess(client)`
\* at its next client, or past its last one
SweepClients(tk, ret, after) ==
    IF tk.todo = <<>> THEN after
    ELSE SnaEnter([tk EXCEPT !.todo = Tail(tk.todo), !.doc = Head(tk.todo)],
                  Head(tk.todo), ret)

\* cron.schedule('0 * * * *'): Client.find(), then the loop
LegacyCron(t) ==
    /\ Idle(t)
    /\ LET tk == [IdleTask EXCEPT !.op = "LegacyCron", !.todo = DocsOf(clients, ClientIds)]
       IN  task' = [task EXCEPT ![t] =
                SweepClients(tk, "lcron_next", [tk EXCEPT !.pc = "done", !.res = "ok"])]
    /\ UNCHANGED <<now, devUp, rules, clients, subs, pending, storedAt, billing, plans, prev, applied>>

LegacyCronNext(t) ==
    /\ task[t].pc = "lcron_next"
    /\ task' = [task EXCEPT ![t] =
                SweepClients(task[t], "lcron_next",
                             [task[t] EXCEPT !.pc = "done", !.res = "ok"])]
    /\ UNCHANGED <<now, devUp, rules, clients, subs, pending, storedAt, billing, plans, prev, applied>>

\* ------------------------------------------------- server.js cron job
\* the subscriber loop at its next expired subscriber (lines 59-63): the
\* status becomes 'inactive' and save() is awaited
RECURSIVE SweepSubs(_)
SweepSubs(tk) ==
    IF tk.todo = <<>> THEN [tk EXCEPT !.pc = "done", !.res = "ok"]
    ELSE LET h == Head(tk.todo)
         IN  IF h.end < now
             THEN [tk EXCEPT !.pc = "cron_ssave", !.todo = Tail(tk.todo),
                             !.ost = h.status,
                             !.doc = [h EXCEPT !.status = "inactive"],
                             !.mod = Modified(h, [status |-> "inactive"])]
             ELSE SweepSubs([tk EXCEPT !.todo = Tail(tk.todo)])

\* cron.schedule('0 * * * *'): Client.find(), setNetworkAccess per client
Cron(t) ==
    /\ Idle(t)
    /\ LET tk == [IdleTask EXCEPT !.op = "Cron", !.todo = DocsOf(clients, ClientIds)]
       IN  task' = [task EXCEPT ![t] =
                SweepClients(tk, "cron_cnext", [tk EXCEPT !.pc = "cron_sfind"])]
    /\ UNCHANGED <<now, devUp, rules, clients, subs, pending, storedAt, billing, plans, prev, applied>>

CronClientNext(t) ==
    /\ task[t].pc = "cron_cnext"
    /\ task' = [task EXCEPT ![t] =
                SweepClients(task[t], "cron_cnext", [task[t] EXCEPT !.pc = "cron_sfind"])]
    /\ UNCHANGED <<now, devUp, rules, clients, subs, pending, storedAt, billing, plans, prev, applied>>

\* ... Subscriber.find(), then the subscriber loop
CronSubFind(t) ==
    /\ task[t].pc = "cron_sfind"
    /\ task' = [task EXCEPT ![t] =
                SweepSubs([task[t] EXCEPT !.todo = DocsOf(subs, SubIds)])]
    /\ UNCHANGED <<now, devUp, rules, clients, subs, pending, storedAt, billing, plans, prev, applied>>

\* ... subscriber.save(), then blockClient when there is an address
CronSubSave(t) ==
    /\ task[t].pc = "cron_ssave"
    /\ LET tk == task[t]
       IN  IF SaveFails(subs, tk.doc, tk.mod)
           THEN /\ task' = [task EXCEPT ![t] = Throw(tk)]
                /\ UNCHANGED subs
           ELSE /\ subs' = Saved(subs, tk.doc, tk.mod)
                /\ task' = [task EXCEPT ![t] =
                      IF tk.doc.ip # NoIp
                      THEN BlockEnter(tk, tk.doc.ip, tk.doc.id, "cron_snext")
                      ELSE SweepSubs(tk)]
    /\ UNCHANGED <<now, devUp, rules, clients, pending, storedAt, billing, plans, prev, applied>>

CronSubNext(t) ==
    /\ task[t].pc = "cron_snext"
    /\ task' = [task EXCEPT ![t] = SweepSubs(task[t])]
    /\ UNCHANGED <<now, devUp, rules, clients, subs, pending, storedAt, billing, plans, prev, applied>>

\* ------------------------------------------------------ routes/billing.js
\* servicePlan.durationInMonths of the stored plans
DurationInMonths(p) == 1

\* router.post('/mpesa/initiate'): subscriber and plan lookups, then the STK
\* push is sent
Initiate(t, s) ==
    /\ Idle(t)
    /\ LET tk == [IdleTask EXCEPT !.op = "Initiate", !.doc = subs[s]]
       IN  task' = [task EXCEPT ![t] =
                IF subs[s] = NullDoc THEN [tk EXCEPT !.pc = "done", !.res = "404"]
                ELSE IF ~PlanExists(subs[s].plan) THEN [tk EXCEPT !.pc = "done", !.res = "400"]
                ELSE [tk EXCEPT !.pc = "init_stk"]]
    /\ UNCHANGED <<now, devUp, rules, clients, subs, pending, storedAt, billing, plans, prev, applied>>

\* a CheckoutRequestID the provider has not handed out
Fresh(ck) == pending[ck] = "none" /\ billing[ck] = 0
                /\ \A u \in Tasks : task[u].ck # ck

\* a variant that stores the entry before it knows the push succeeded
InitiateStoreEarly(t, ck, ok) ==
    /\ task[t].pc = "init_stk"
    /\ Fresh(ck)
    /\ pending' = [pending EXCEPT ![ck] = task[t].doc.id]
    /\ storedAt' = [storedAt EXCEPT ![ck] = now]
    /\ task' = [task EXCEPT ![t] =
                IF ok THEN [task[t] EXCEPT !.pc = "done", !.res = "ok", !.ck = ck]
                ELSE Throw(task[t])]
    /\ UNCHANGED <<now, devUp, rules, clients, subs, billing, plans, prev, applied>>

\* ... the push answers with a new CheckoutRequestID, which is stored, or fails
InitiateStore(t, ck, ok) ==
    /\ task[t].pc = "init_stk"
    /\ ok => Fresh(ck)
    /\ pending' = IF ok THEN [pending EXCEPT ![ck] = task[t].doc.id] ELSE pending
    /\ storedAt' = IF ok THEN [storedAt EXCEPT ![ck] = now] ELSE storedAt
    /\ task' = [task EXCEPT ![t] =
                IF ok THEN [task[t] EXCEPT !.pc = "done", !.res = "ok", !.ck = ck]
                ELSE Throw(task[t])]
    /\ UNCHANGED <<now, devUp, rules, clients, subs, billing, plans, prev, applied>>

\* a variant that processes a confirmation whatever its ResultCode
CallbackAnyCode(t, ck, rc) ==
    /\ Idle(t)
    /\ LET tk == [IdleTask EXCEPT !.op = "Callback", !.ck = ck, !.rc = rc]
       IN  task' = [task EXCEPT ![t] =
                IF pending[ck] = "none"
                THEN [tk EXCEPT !.pc = "done", !.res = "400", !.unmatched = TRUE]
                ELSE [tk EXCEPT !.pc = "cb_bill", !.doc.id = pending[ck],
                                !.callNow = now, !.entryAt = storedAt[ck]]]
    /\ UNCHANGED <<now, devUp, rules, clients, subs, pending, storedAt, billing, plans, prev, applied>>

\* router.post('/mpesa/callback'): ResultCode, pendingCheckouts.get, and the
\* billing record is built and its save() awaited (lines 216-238)
Callback(t, ck, rc) ==
    /\ Idle(t)
    /\ LET tk == [IdleTask EXCEPT !.op = "Callback", !.ck = ck, !.rc = rc]
       IN  task' = [task EXCEPT ![t] =
                IF rc # 0 THEN [tk EXCEPT !.pc = "done", !.res = "ack"]
                ELSE IF pending[ck] = "none"
                THEN [tk EXCEPT !.pc = "done", !.res = "400", !.unmatched = TRUE]
                ELSE [tk EXCEPT !.pc = "cb_bill", !.doc.id = pending[ck],
                                !.callNow = now, !.entryAt = storedAt[ck]]]
    /\ UNCHANGED <<now, devUp, rules, clients, subs, pending, storedAt, billing, plans, prev, applied>>

\* ... the paid billing record is stored
CallbackBill(t) ==
    /\ task[t].pc = "cb_bill"
    /\ billing[task[t].ck] < MaxBill
    /\ billing' = [billing EXCEPT ![task[t].ck] = @ + 1]
    /\ task' = [task EXCEPT ![t] = [task[t] EXCEPT !.pc = "cb_find"]]
    /\ UNCHANGED <<now, devUp, rules, clients, subs, pending, storedAt, prev, applied,
                   plans>>

\* ... Subscriber.findById; an active subscriber is left as it is and the
\* checkout entry is deleted (lines 241-242, 262, 266)
CallbackFind(t) ==
    /\ task[t].pc = "cb_find"
    /\ LET tk == task[t]
           sub == subs[tk.doc.id]
       IN  IF sub = NullDoc
           THEN /\ task' = [task EXCEPT ![t] = Throw(tk)]   \* subscriber.status of null
                /\ UNCHANGED <<pending, storedAt>>
           ELSE IF sub.status # "active"
           THEN /\ task' = [task EXCEPT ![t] =
                      [tk EXCEPT !.pc = "cb_plan", !.doc = sub, !.ost = sub.status]]
                /\ UNCHANGED <<pending, storedAt>>
           ELSE /\ task' = [task EXCEPT ![t] =
                      [tk EXCEPT !.pc = "done", !.res = "ack", !.doc = sub]]
                /\ pending' = [pending EXCEPT ![tk.ck] = "none"]
                /\ storedAt' = [storedAt EXCEPT ![tk.ck] = 0]
    /\ UNCHANGED <<now, devUp, rules, clients, subs, billing, plans, prev, applied>>

\* the new window (lines 248-251): subscriptionStartDate is assigned the Date
\* object `now`, which now.setMonth(...) then moves forward in place, so the
\* start that is saved is the same instant as the end
Renew(doc, n, months) ==
    [doc EXCEPT !.start = n + months, !.end = n + months, !.status = "active"]

\* ... ServicePlan.findById, the new window, subscriber.save() is awaited
CallbackPlan(t) ==
    /\ task[t].pc = "cb_plan"
    /\ LET tk == task[t]
       IN  task' = [task EXCEPT ![t] =
                IF ~PlanExists(tk.doc.plan) THEN [tk EXCEPT !.pc = "done", !.res = "400"]
                ELSE [tk EXCEPT !.pc = "cb_save", !.payAt = now,
                          !.doc = Renew(tk.doc, now, DurationInMonths(tk.doc.plan)),
                          !.mod = Modified(tk.doc,
                                    [f \in {"start", "end", "status"} |->
                                       Renew(tk.doc, now, DurationInMonths(tk.doc.plan))[f]])]]
    /\ UNCHANGED <<now, devUp, rules, clients, subs, pending, storedAt, billing, plans, prev, applied>>

\* ... the window is stored; unblockClient when there is an address
CallbackSave(t) ==
    /\ task[t].pc = "cb_save"
    /\ LET tk == task[t]
       IN  IF SaveFails(subs, tk.doc, tk.mod)
           THEN /\ task' = [task EXCEPT ![t] = Throw(tk)]
                /\ UNCHANGED <<subs, pending, storedAt, applied>>
           ELSE /\ subs' = Saved(subs, tk.doc, tk.mod)
                /\ applied' = [applied EXCEPT ![tk.ck] = IF @ < MaxBill THEN @ + 1 ELSE @]
                /\ IF tk.doc.ip # NoIp
                   THEN /\ task' = [task EXCEPT ![t] =
                              UnblockEnter([tk EXCEPT !.wrote = TRUE],
                                           tk.doc.ip, tk.doc.id, "cb_delete")]
                        /\ UNCHANGED <<pending, storedAt>>
                   ELSE /\ task' = [task EXCEPT ![t] =
                              [tk EXCEPT !.pc = "done", !.res = "ack", !.wrote = TRUE]]
                        /\ pending' = [pending EXCEPT ![tk.ck] = "none"]
                        /\ storedAt' = [storedAt EXCEPT ![tk.ck] = 0]
    /\ UNCHANGED <<now, devUp, rules, clients, billing, plans, prev>>

\* ... pendingCheckouts.delete and the acknowledgment
CallbackDelete(t) ==
    /\ task[t].pc = "cb_delete"
    /\ pending' = [pending EXCEPT ![task[t].ck] = "none"]
    /\ storedAt' = [storedAt EXCEPT ![task[t].ck] = 0]
    /\ task' = [task EXCEPT ![t] = [task[t] EXCEPT !.pc = "done", !.res = "ack"]]
    /\ UNCHANGED <<now, devUp, rules, clients, subs, billing, plans, prev, applied>>

\* router.post('/') (admin payment): validatePayment passed, Subscriber.findOne;
\* the billing record is built and its save() awaited (lines 120-138)
AdminPay(t, s, tx) ==
    /\ Idle(t)
    /\ LET tk == [IdleTask EXCEPT !.op = "AdminPay", !.ck = tx, !.doc = subs[s]]
       IN  task' = [task EXCEPT ![t] =
                IF subs[s] = NullDoc THEN [tk EXCEPT !.pc = "done", !.res = "404"]
                ELSE [tk EXCEPT !.pc = "ap_bill", !.ost = subs[s].status]]
    /\ UNCHANGED <<now, devUp, rules, clients, subs, pending, storedAt, billing, plans, prev, applied>>

\* ... the paid billing record is stored; the status of the subscriber found
\* at the start decides whether the window is renewed (line 141)
AdminPayBill(t) ==
    /\ task[t].pc = "ap_bill"
    /\ billing[task[t].ck] < MaxBill
    /\ billing' = [billing EXCEPT ![task[t].ck] = @ + 1]
    /\ task' = [task EXCEPT ![t] =
                IF task[t].doc.status # "active" THEN [task[t] EXCEPT !.pc = "ap_plan"]
                ELSE [task[t] EXCEPT !.pc = "done", !.res = "ok"]]
    /\ UNCHANGED <<now, devUp, rules, clients, subs, pending, storedAt, prev, applied,
                   plans>>

\* ... ServicePlan.findById, the new window, subscriber.save() is awaited
\* (lines 142-152)
AdminPayPlan(t) ==
    /\ task[t].pc = "ap_plan"
    /\ LET tk == task[t]
       IN  task' = [task EXCEPT ![t] =
                IF ~PlanExists(tk.doc.plan) THEN [tk EXCEPT !.pc = "done", !.res = "400"]
                ELSE [tk EXCEPT !.pc = "ap_save", !.payAt = now,
                          !.doc = Renew(tk.doc, now, DurationInMonths(tk.doc.plan)),
                          !.mod = Modified(tk.doc,
                                    [f \in {"start", "end", "status"} |->
                                       Renew(tk.doc, now, DurationInMonths(tk.doc.plan))[f]])]]
    /\ UNCHANGED <<now, devUp, rules, clients, subs, pending, storedAt, billing, plans, prev, applied>>

\* ... the window is stored; unblockClient when there is an address, then the
\* 201 answer (lines 152-162)
AdminPaySave(t) ==
    /\ task[t].pc = "ap_save"
    /\ LET tk == task[t]
       IN  IF SaveFails(subs, tk.doc, tk.mod)
           THEN /\ task' = [task EXCEPT ![t] = Throw(tk)]
                /\ UNCHANGED subs
           ELSE /\ subs' = Saved(subs, tk.doc, tk.mod)
                /\ task' = [task EXCEPT ![t] =
                      IF tk.doc.ip # NoIp
                      THEN UnblockEnter([tk EXCEPT !.wrote = TRUE],
                                        tk.doc.ip, tk.doc.id, "done")
                      ELSE [tk EXCEPT !.pc = "done", !.res = "ok", !.wrote = TRUE]]
    /\ UNCHANGED <<now, devUp, rules, clients, pending, storedAt, billing, plans, prev, applied>>

\* ----------------------------------------------- service plan routes
\* router.post('/'): no plan of that name is stored, the plan is saved
PlanPost(t, p) ==
    /\ Idle(t)
    /\ plans[p] = "none"
    /\ plans' = [plans EXCEPT ![p] = "stored"]
    /\ task' = [task EXCEPT ![t] =
                [IdleTask EXCEPT !.op = "PlanPost", !.pc = "done", !.res = "ok"]]
    /\ UNCHANGED <<now, devUp, rules, clients, subs, pending, billing, prev, applied,
                   storedAt>>

\* router.delete('/:id'): ServicePlan.findById
PlanDelete(t, p) ==
    /\ Idle(t)
    /\ LET tk == [IdleTask EXCEPT !.op = "PlanDelete", !.doc.plan = p]
       IN  task' = [task EXCEPT ![t] =
                IF ~PlanExists(p) THEN [tk EXCEPT !.pc = "done", !.res = "404"]
                ELSE [tk EXCEPT !.pc = "pdel_count"]]
    /\ UNCHANGED <<now, devUp, rules, clients, subs, pending, billing, prev, applied,
                   storedAt, plans>>

\* ... Subscriber.countDocuments({servicePlan}): an assigned plan is kept
PlanDeleteCount(t) ==
    /\ task[t].pc = "pdel_count"
    /\ task' = [task EXCEPT ![t] =
                IF \E s \in SubIds : subs[s] # NullDoc /\ subs[s].plan = task[t].doc.plan
                THEN [task[t] EXCEPT !.pc = "done", !.res = "400"]
                ELSE [task[t] EXCEPT !.pc = "pdel_remove"]]
    /\ UNCHANGED <<now, devUp, rules, clients, subs, pending, billing, prev, applied,
                   storedAt, plans>>

\* ... ServicePlan.findByIdAndDelete
PlanDeleteRemove(t) ==
    /\ task[t].pc = "pdel_remove"
    /\ plans' = [plans EXCEPT ![task[t].doc.plan] = IF @ = "stored" THEN "deleted" ELSE @]
    /\ task' = [task EXCEPT ![t] = [task[t] EXCEPT !.pc = "done", !.res = "ok"]]
    /\ UNCHANGED <<now, devUp, rules, clients, subs, pending, billing, prev, applied,
                   storedAt>>

\* ------------------------------------------------------------ environment
Tick ==
    /\ now < MaxTime
    /\ now' = now + 1
    /\ UNCHANGED <<devUp, rules, clients, subs, pending, storedAt, billing, plans, task, prev, applied>>

ToggleDevice ==
    /\ devUp' = ~devUp
    /\ UNCHANGED <<now, rules, clients, subs, pending, storedAt, billing, plans, task, prev, applied>>

\* ------------------------------------------------------ the whole program
\* Every handler of both servers, overlapping, with the clock and the device.
Next ==
    \/ Tick
    \/ ToggleDevice
    \/ \E t \in Tasks :
        \/ \E c \in ClientIds, b \in ClientBodies : ClientPost(t, c, b)
        \/ ClientPostStatus(t)
        \/ \E c \in ClientIds, b \in ClientBodies : ClientPut(t, c, b)
        \/ ClientPutSave(t)
        \/ ClientPutStatus(t)
        \/ \E c \in ClientIds : ClientDelete(t, c)
        \/ ClientDeleteRemove(t)
        \/ \E s \in SubIds, b \in SubBodies : SubPost(t, s, b)
        \/ SubPostSave(t)
        \/ SubPostStatus(t)
        \/ \E s \in SubIds, b \in SubUpdates : SubPut(t, s, b)
        \/ SubPutSave(t)
        \/ SubPutNew(t)
        \/ SubPutStatus(t)
        \/ \E s \in SubIds : SubDelete(t, s)
        \/ SubDeleteRemove(t)
        \/ \E c \in ClientIds, b \in ClientBodies : LegacyPost(t, c, b)
        \/ \E c \in ClientIds, b \in ClientBodies : LegacyPut(t, c, b)
        \/ LegacyPutSave(t)
        \/ \E c \in ClientIds : LegacyDelete(t, c)
        \/ LegacyDeleteRemove(t)
        \/ LegacyCron(t)
        \/ LegacyCronNext(t)
        \/ Cron(t)
        \/ CronClientNext(t)
        \/ CronSubFind(t)
        \/ CronSubSave(t)
        \/ CronSubNext(t)
        \/ \E s \in SubIds : Initiate(t, s)
        \/ \E ck \in CheckoutIds, ok \in BOOLEAN : InitiateStore(t, ck, ok)
        \/ \E ck \in CheckoutIds, rc \in {0, 1} : Callback(t, ck, rc)
        \/ CallbackBill(t)
        \/ CallbackFind(t)
        \/ CallbackPlan(t)
        \/ CallbackSave(t)
        \/ CallbackDelete(t)
        \/ \E s \in SubIds, tx \in TxIds : AdminPay(t, s, tx)
        \/ AdminPayBill(t)
        \/ AdminPayPlan(t)
        \/ AdminPaySave(t)
        \/ \E p \in Plans : PlanPost(t, p)
        \/ \E p \in Plans : PlanDelete(t, p)
        \/ PlanDeleteCount(t)
        \/ PlanDeleteRemove(t)
        \/ \E c \in ClientIds : Reconcile(t, c)
        \/ Probe(t)
        \/ Add(t)
        \/ Del(t)
        \/ ExecError(t)
        \/ Stall(t)
        \/ Finish(t)

Spec == Init /\ [][Next]_vars

\* The specifications below run parts of the program: the handlers a property
\* is about, in sequence or overlapping.

\* ------------------------------------- N concurrent calls on one client
\* The inputs of the calls: one stored client, its rule present or absent.
InitConc ==
    /\ now \in 1..MaxTime
    /\ devUp = TRUE
    /\ \E n \in 0..1 : rules = [k \in Keys |-> IF k = <<"ip1", "c1">> THEN n ELSE 0]
    /\ \E e \in DateInputs :
         clients = [c \in ClientIds |->
                      [id |-> c, ip |-> "ip1", start |-> 0, end |-> e,
                       status |-> "none", plan |-> "none"]]
    /\ subs = [s \in SubIds |-> NullDoc]
    /\ pending = [ck \in CheckoutIds |-> "none"]
    /\ billing = [ck \in CheckoutIds \cup TxIds |-> 0]
    /\ task = [t \in Tasks |-> IdleTask]
    /\ prev = "NA"
    /\ applied = [ck \in CheckoutIds |-> 0]
    /\ storedAt = [ck \in CheckoutIds |-> 0]
    /\ plans = [p \in Plans |-> "none"]

NextConc ==
    \E t \in Tasks :
        \/ \E c \in ClientIds : Reconcile(t, c)
        \/ Probe(t)
        \/ Add(t)
        \/ Del(t)

SpecConc == InitConc /\ [][NextConc]_vars

RECURSIVE Commands(_)
Commands(S) ==
    IF S = {} THEN 0
    ELSE LET t == CHOOSE x \in S : TRUE
         IN  task[t].nAdd + task[t].nDel + Commands(S \ {t})

\* C1: N overlapping setNetworkAccess calls on one key issue exactly one
\* corrective command when a mismatch existed, and none when there was none.
C1_ExactlyOneCorrective ==
    (\A t \in Tasks : task[t].op = "setNetworkAccess" /\ task[t].pc = "done")
        => Commands(Tasks) = IF \E t \in Tasks : task[t].mis THEN 1 ELSE 0

\* sessions open at once: one per handler that awaits executeSSHCommand
OpenSessions == Cardinality({t \in Tasks : task[t].pc \in RemotePcs})

\* a global maximum of sessions limits something only when it is below the
\* number of handlers that can be in flight at once
SessionLimit == NumTasks - 1

\* C25: the sessions open at once stay within the global maximum.
C25_SessionsBounded == OpenSessions <= SessionLimit

\* ------------------------------------ calls in sequence, device reachable
\* One task runs its invocations one after the other.
SeqTasks == {CHOOSE t \in Tasks : TRUE}

NextSeq ==
    \E t \in SeqTasks :
        \/ \E c \in ClientIds, b \in ClientBodies : ClientPost(t, c, b)
        \/ ClientPostStatus(t)
        \/ \E c \in ClientIds, b \in ClientBodies : ClientPut(t, c, b)
        \/ ClientPutSave(t)
        \/ ClientPutStatus(t)
        \/ \E c \in ClientIds : ClientDelete(t, c)
        \/ ClientDeleteRemove(t)
        \/ \E c \in ClientIds : Reconcile(t, c)
        \/ Probe(t)
        \/ Add(t)
        \/ Del(t)
        \/ Finish(t)

SpecSeq == Init /\ [][NextSeq]_vars

\* the desired-state rule: blocked = now < start or now >= end
DesiredBlocked(doc, n) == n < doc.start \/ n >= doc.end

\* C2: a second setNetworkAccess call right after a first one, with the
\* record, the device and the instant untouched in between, issues no
\* corrective command (its outcome is "none").
C2_SecondCallNone ==
    \A t \in Tasks :
        (task[t].op = "setNetworkAccess" /\ task[t].pc = "done" /\ prev # "NA")
            => Outcome(task[t]) = "none"

\* C3: after one setNetworkAccess call whose probe and command succeeded,
\* the block rule is present exactly when the call's desired state is blocked.
C3_Converged ==
    \A t \in Tasks :
        (task[t].op = "setNetworkAccess" /\ task[t].pc = "done"
            /\ task[t].res = "ok" /\ ~task[t].probeErr)
            => (RuleCheck(rules, task[t].key) <=> task[t].shouldBlock)

\* C7: a record whose end instant equals the instant of the call is
\* desired-blocked.
C7_EndEqualsNowBlocked ==
    \A t \in Tasks :
        (task[t].pc = "probe" /\ task[t].callEnd = task[t].callNow)
            => task[t].shouldBlock

\* C11: a handler whose add or delete command exited with a non-zero status
\* does not log the action as applied and does not go on as after a success:
\* it ends with a failure answer.
C11_NonZeroExitReported ==
    \A t \in Tasks :
        task[t].cmd = "nonzero"
            => (~task[t].logged /\ task[t].pc = "done" /\ task[t].res \notin {"ok", "ack"})

\* C16: after an update hook that changed the address has completed, the
\* device holds no block rule keyed by the old address and the record's id.
C16_NoStaleRule ==
    \A t \in Tasks :
        (task[t].op \in {"ClientPut", "SubPut", "LegacyPut"} /\ task[t].pc = "done"
            /\ task[t].res = "ok" /\ task[t].oldIp # NoIp
            /\ task[t].oldIp # task[t].doc.ip)
            => ~RuleCheck(rules, <<task[t].oldIp, task[t].doc.id>>)

\* C20: after a create request has completed with the device reachable, the
\* block rule of the new record is present exactly when the record is not yet
\* started or expired.
C20_CreateReconciles ==
    \A t \in Tasks :
        (task[t].op \in {"ClientPost", "SubPost", "LegacyPost"} /\ task[t].pc = "done"
            /\ task[t].res = "ok" /\ task[t].doc.ip # NoIp)
            => (RuleCheck(rules, <<task[t].doc.ip, task[t].doc.id>>)
                    <=> DesiredBlocked(task[t].doc, now))

\* ------------------------- the single-file server with device failures
NextFault ==
    \/ ToggleDevice
    \/ \E t \in SeqTasks :
        \/ \E c \in ClientIds, b \in ClientBodies : LegacyPost(t, c, b)
        \/ \E c \in ClientIds, b \in ClientBodies : LegacyPut(t, c, b)
        \/ LegacyPutSave(t)
        \/ \E c \in ClientIds : LegacyDelete(t, c)
        \/ LegacyDeleteRemove(t)
        \/ LegacyCron(t)
        \/ LegacyCronNext(t)
        \/ Probe(t)
        \/ Add(t)
        \/ Del(t)
        \/ Finish(t)

SpecFault == Init /\ [][NextFault]_vars

\* C4: after a probe that failed with a connection error the call issues no
\* add-block and no remove-block command.
C4_IndeterminateDefers ==
    \A t \in Tasks :
        task[t].probeErr
            => (task[t].pc \notin {"add", "del"} /\ task[t].nAdd = 0 /\ task[t].nDel = 0)

\* C22: a probe whose connection failed reports Indeterminate, and a probe
\* that reports Present or Absent had a connection that succeeded.
C22_ProbeTriState ==
    \A t \in Tasks :
        (task[t].op # "idle" /\ task[t].key[1] # NoIp /\ task[t].pc # "probe")
            => (task[t].probeErr <=> RuleExistsResult(task[t]) = "Indeterminate")

\* ------ subscriber routes and the cron job (server.js), one call at a time
\* the clients the sweep meets here: one address, expired or entitled
SweepBodies == {b \in ClientBodies : b.ip = "ip1" /\ b.end \in {Epoch, MaxDate}}

NextHooks ==
    \E t \in SeqTasks :
        \/ \E c \in ClientIds, b \in SweepBodies : ClientPost(t, c, b)
        \/ ClientPostStatus(t)
        \/ \E p \in Plans : PlanPost(t, p)
        \/ \E s \in SubIds, b \in SubBodies : SubPost(t, s, b)
        \/ SubPostSave(t)
        \/ SubPostStatus(t)
        \/ \E s \in SubIds, b \in SubUpdates : SubPut(t, s, b)
        \/ SubPutSave(t)
        \/ SubPutNew(t)
        \/ SubPutStatus(t)
        \/ \E s \in SubIds : SubDelete(t, s)
        \/ SubDeleteRemove(t)
        \/ Cron(t)
        \/ CronClientNext(t)
        \/ CronSubFind(t)
        \/ CronSubSave(t)
        \/ CronSubNext(t)
        \/ Probe(t)
        \/ Add(t)
        \/ Del(t)
        \/ Finish(t)

SpecHooks == Init /\ [][NextHooks]_vars

\* C5: the device holds at most one block rule per (address, id) key.
C5_AtMostOneRule == \A k \in Keys : rules[k] <= 1

\* C8: after a subscriber create hook, update hook or sweep has completed,
\* every stored subscriber with an address that is not yet started or is
\* expired has its block rule on the device.
C8_DesiredRuleEveryPath ==
    \A t \in Tasks :
        (task[t].op \in {"SubPost", "SubPut", "Cron"} /\ task[t].pc = "done"
            /\ task[t].res = "ok")
            => \A s \in SubIds :
                 (subs[s] # NullDoc /\ subs[s].ip # NoIp /\ DesiredBlocked(subs[s], now))
                     => RuleCheck(rules, <<subs[s].ip, s>>)

\* C10: after a delete hook has completed with the device reachable, the
\* device holds a block rule for the key of the deleted record.
C10_DeleteBlocks ==
    \A t \in Tasks :
        (task[t].op \in {"ClientDelete", "SubDelete", "LegacyDelete"}
            /\ task[t].pc = "done" /\ task[t].res = "ok" /\ task[t].doc.ip # NoIp)
            => RuleCheck(rules, <<task[t].doc.ip, task[t].doc.id>>)

\* ------------------------------ the single-file server, overlapping calls
\* request bodies that change the entitlement window only
WindowBodies == {b \in ClientBodies : b.ip = "ip1"}

NextLegacy ==
    \E t \in Tasks :
        \/ \E c \in ClientIds, b \in WindowBodies : LegacyPost(t, c, b)
        \/ \E c \in ClientIds, b \in WindowBodies : LegacyPut(t, c, b)
        \/ LegacyPutSave(t)
        \/ \E c \in ClientIds : LegacyDelete(t, c)
        \/ LegacyDeleteRemove(t)
        \/ LegacyCron(t)
        \/ LegacyCronNext(t)
        \/ Probe(t)
        \/ Add(t)
        \/ Del(t)
        \/ Finish(t)

SpecLegacy == Init /\ [][NextLegacy]_vars

\* C9: once the update hooks and reconciliations in flight have all
\* completed, the rule of every stored client is present exactly when the
\* window stored last is expired.
C9_LatestWindowWins ==
    (\A t \in Tasks : task[t].pc \in {"idle", "done"})
        => \A c \in ClientIds :
             clients[c] # NullDoc
                 => (RuleCheck(rules, <<clients[c].ip, c>>) <=> ShouldBlock(clients[c], now))

\* ------------------------------------------ payments, overlapping calls
NextPay ==
    \/ Tick
    \/ \E t \in Tasks :
        \/ \E p \in Plans : PlanPost(t, p)
        \/ \E s \in SubIds, b \in SubBodies : SubPost(t, s, b)
        \/ SubPostSave(t)
        \/ SubPostStatus(t)
        \/ \E s \in SubIds : Initiate(t, s)
        \/ \E ck \in CheckoutIds, ok \in BOOLEAN : InitiateStore(t, ck, ok)
        \/ \E ck \in CheckoutIds, rc \in {0, 1} : Callback(t, ck, rc)
        \/ CallbackBill(t)
        \/ CallbackFind(t)
        \/ CallbackPlan(t)
        \/ CallbackSave(t)
        \/ CallbackDelete(t)
        \/ Del(t)
        \/ Finish(t)

SpecPay == Init /\ [][NextPay]_vars

\* C6: the confirmations of one checkout request, however often and however
\* overlapping they are delivered, change the subscriber's window once.
C6_WindowChangedOnce == \A ck \in CheckoutIds : applied[ck] <= 1

\* C12: a successful confirmation whose request id has no entry is answered
\* with the fixed acknowledgment and has written nothing and sent no command.
C12_UnmatchedAcknowledged ==
    \A t \in Tasks :
        (task[t].op = "Callback" /\ task[t].unmatched /\ task[t].pc = "done")
            => (task[t].res = "ack" /\ ~task[t].wrote
                    /\ task[t].nAdd = 0 /\ task[t].nDel = 0)

\* C14: a successful confirmation that found its entry and was acknowledged
\* has written the subscriber's new window, whatever the status it found.
C14_MatchedExtends ==
    \A t \in Tasks :
        (task[t].op = "Callback" /\ task[t].pc = "done" /\ task[t].res = "ack"
            /\ task[t].entryAt > 0)
            => task[t].wrote

\* C15: a confirmation is never applied at a later instant of the clock than
\* the one its entry was stored at (the clock counts plan months, longer than
\* the age limit of a checkout entry).
C15_ExpiredEntryRejected ==
    \A t \in Tasks :
        task[t].wrote => task[t].callNow = task[t].entryAt

NextPayFault ==
    \/ ToggleDevice
    \/ \E t \in SeqTasks :
        \/ \E p \in Plans : PlanPost(t, p)
        \/ \E s \in SubIds, b \in SubBodies : SubPost(t, s, b)
        \/ SubPostSave(t)
        \/ SubPostStatus(t)
        \/ \E s \in SubIds : SubDelete(t, s)
        \/ SubDeleteRemove(t)
        \/ \E s \in SubIds : Initiate(t, s)
        \/ \E ck \in CheckoutIds, ok \in BOOLEAN : InitiateStore(t, ck, ok)
        \/ \E ck \in CheckoutIds, rc \in {0, 1} : Callback(t, ck, rc)
        \/ CallbackBill(t)
        \/ CallbackFind(t)
        \/ CallbackPlan(t)
        \/ CallbackSave(t)
        \/ CallbackDelete(t)
        \/ Del(t)
        \/ Finish(t)

SpecPayFault == Init /\ [][NextPayFault]_vars

\* C13: every delivery that found its entry is answered with the fixed
\* acknowledgment, also when its processing failed.
C13_AlwaysAcknowledged ==
    \A t \in Tasks :
        (task[t].op = "Callback" /\ task[t].pc = "done" /\ ~task[t].unmatched)
            => task[t].res = "ack"

\* -------- subscriber routes and the cron job with device failures, one call
\* at a time
\* the requests met here: subscribers that have started, expired or entitled
OutageBodies == {b \in SubBodies : b.ip = "ip1" /\ b.start = Epoch}
OutageUpdates == {b \in SubUpdates : b.ip # NoIp /\ b.start = Epoch /\ b.end \in {Epoch, MaxDate}}

NextOutage ==
    \/ ToggleDevice
    \/ \E t \in SeqTasks :
        \/ \E c \in ClientIds, b \in SweepBodies : ClientPost(t, c, b)
        \/ ClientPostStatus(t)
        \/ \E p \in Plans : PlanPost(t, p)
        \/ \E s \in SubIds, b \in OutageBodies : SubPost(t, s, b)
        \/ SubPostSave(t)
        \/ SubPostStatus(t)
        \/ \E s \in SubIds, b \in OutageUpdates : SubPut(t, s, b)
        \/ SubPutSave(t)
        \/ SubPutNew(t)
        \/ SubPutStatus(t)
        \/ \E s \in SubIds : SubDelete(t, s)
        \/ SubDeleteRemove(t)
        \/ Cron(t)
        \/ CronClientNext(t)
        \/ CronSubFind(t)
        \/ CronSubSave(t)
        \/ CronSubNext(t)
        \/ Probe(t)
        \/ Add(t)
        \/ Del(t)
        \/ Finish(t)

SpecOutage == Init /\ [][NextOutage]_vars

\* C17: a sweep that is over has reached every expired subscriber of its
\* snapshot (the sweep marks each one it reaches inactive), whatever remote
\* call failed before.
C17_SweepReachesAll ==
    \A t \in Tasks :
        (task[t].op = "Cron" /\ task[t].pc = "done")
            => \A s \in SubIds :
                 (subs[s] # NullDoc /\ ShouldBlock(subs[s], now))
                     => subs[s].status = "inactive"

HookOps ==
    {"ClientPost", "ClientPut", "ClientDelete", "SubPost", "SubPut", "SubDelete",
     "LegacyPost", "LegacyPut", "LegacyDelete"}

\* C18: a create, update or delete request whose remote command was rejected
\* by an unreachable device still ends with its normal answer.
C18_OutageNotPropagated ==
    \A t \in Tasks :
        (task[t].op \in HookOps /\ task[t].cmd = "rejected" /\ task[t].pc = "done")
            => task[t].res = "ok"

\* a record past its end, and a record inside its window
Expired(doc, n) == doc.end < n
Entitled(doc, n) == doc.start <= n /\ n < doc.end

\* C19: the sweep that follows a rejected remote command and runs to its end
\* with the device reachable leaves every stored subscriber past its end with
\* its block rule and every stored subscriber inside its window without one.
C19_SweepConverges ==
    \A t \in Tasks :
        (task[t].op = "Cron" /\ task[t].pc = "done" /\ task[t].res = "ok"
            /\ prev = "rejected" /\ devUp /\ ~task[t].probeErr)
            => \A s \in SubIds :
                 (subs[s] # NullDoc /\ subs[s].ip # NoIp)
                     => /\ Expired(subs[s], now) => RuleCheck(rules, <<subs[s].ip, s>>)
                        /\ Entitled(subs[s], now) => ~RuleCheck(rules, <<subs[s].ip, s>>)

\* C21: when the remote command of an update hook, a sweep or a payment
\* confirmation was rejected, the subscriber's stored status is the one the
\* trigger found.
C21_StatusAfterSuccess ==
    \A t \in Tasks :
        (task[t].op \in {"SubPut", "Cron", "Callback"} /\ task[t].cmd = "rejected"
            /\ task[t].doc.id \in SubIds /\ subs[task[t].doc.id] # NullDoc)
            => subs[task[t].doc.id].status = task[t].ost

\* ------------- the single-file server and a device whose sessions can fail
\* or stall, one call at a time
StepsRemote ==
    \E t \in SeqTasks :
        \/ LegacyPutSave(t)
        \/ LegacyDeleteRemove(t)
        \/ LegacyCronNext(t)
        \/ Probe(t)
        \/ Add(t)
        \/ Del(t)
        \/ Finish(t)

RequestsRemote ==
    \E t \in SeqTasks :
        \/ \E c \in ClientIds, b \in WindowBodies : LegacyPost(t, c, b)
        \/ \E c \in ClientIds, b \in WindowBodies : LegacyPut(t, c, b)
        \/ \E c \in ClientIds : LegacyDelete(t, c)
        \/ LegacyCron(t)

\* sessions whose exec fails
NextRemote ==
    \/ StepsRemote
    \/ RequestsRemote
    \/ \E t \in SeqTasks : ExecError(t)

SpecRemote == Init /\ [][NextRemote]_vars

\* sessions that stall
NextStall ==
    \/ StepsRemote
    \/ RequestsRemote
    \/ \E t \in SeqTasks : Stall(t)

\* every step of a handler that can be taken is taken in the end: the event
\* loop runs a continuation once its promise has settled
SpecStall == Init /\ [][NextStall]_vars /\ WF_vars(StepsRemote)

\* C23: a handler that awaits a remote call gets past it in the end.
C23_CallSettles ==
    \A t \in Tasks :
        (task[t].pc \in RemotePcs) ~> (task[t].pc \notin RemotePcs \cup {"hung"})

\* C24: no invocation has left a session open behind a call that settled.
C24_SessionClosed == \A t \in Tasks : task[t].leaked = 0

\* ---------------- the single-file server and request bodies of any content
\* the allow-listed syntax of an address
Conforms(ip) == ip \in IPs

AnyBodies == [ip : IPs \cup {BadIp}, end : DateInputs]

NextInput ==
    \E t \in SeqTasks :
        \/ \E c \in ClientIds, b \in AnyBodies : LegacyPost(t, c, b)
        \/ \E c \in ClientIds, b \in AnyBodies : LegacyPut(t, c, b)
        \/ LegacyPutSave(t)
        \/ \E c \in ClientIds : LegacyDelete(t, c)
        \/ LegacyDeleteRemove(t)
        \/ LegacyCron(t)
        \/ LegacyCronNext(t)
        \/ Probe(t)
        \/ Add(t)
        \/ Del(t)
        \/ Finish(t)

SpecInput == Init /\ [][NextInput]_vars

\* C26: every command awaited on the remote channel was built from an address
\* of the allow-listed syntax.
C26_OnlyConformingSent ==
    \A t \in Tasks : task[t].pc \in RemotePcs => Conforms(task[t].key[1])

\* -------- payments with device failures, one call at a time, under fairness
\* the steps of the handlers in flight (not the arrival of new requests)
StepsPay ==
    \E t \in SeqTasks :
        \/ SubPostSave(t)
        \/ SubPostStatus(t)
        \/ SubDeleteRemove(t)
        \/ \E ck \in CheckoutIds, ok \in BOOLEAN : InitiateStore(t, ck, ok)
        \/ CallbackBill(t)
        \/ CallbackFind(t)
        \/ CallbackPlan(t)
        \/ CallbackSave(t)
        \/ CallbackDelete(t)
        \/ Del(t)
        \/ Finish(t)

SpecPayFair == SpecPayFault /\ WF_vars(StepsPay)

\* C27: an entry of the correlation store is removed in the end.
C27_EntryRemoved ==
    \A ck \in CheckoutIds : (pending[ck] # "none") ~> (pending[ck] = "none")

\* C30: at most one paid billing record is stored per checkout request.
C30_OneBillingRecord == \A ck \in CheckoutIds : billing[ck] <= 1

\* ----------------------- service plans and subscribers, overlapping calls
\* subscribers without an address: no remote call is made for them
PlanBodies == {b \in SubBodies : b.ip = NoIp /\ b.start = Epoch}

NextPlans ==
    \E t \in Tasks :
        \/ \E p \in Plans : PlanPost(t, p)
        \/ \E p \in Plans : PlanDelete(t, p)
        \/ PlanDeleteCount(t)
        \/ PlanDeleteRemove(t)
        \/ \E s \in SubIds, b \in PlanBodies : SubPost(t, s, b)
        \/ SubPostSave(t)
        \/ \E s \in SubIds : SubDelete(t, s)
        \/ SubDeleteRemove(t)
        \/ Finish(t)

SpecPlans == Init /\ [][NextPlans]_vars

\* C28: the service plan named by a stored subscriber is a stored plan.
C28_NoDanglingPlan ==
    \A s \in SubIds :
        (subs[s] # NullDoc /\ subs[s].plan # "none") => PlanExists(subs[s].plan)

\* ------ both payment routes with device failures, one call at a time
\* subscribers as the create route stores them
RenewBodies == {b \in SubBodies : b.ip # "ip2"}

NextRenew ==
    \/ ToggleDevice
    \/ \E t \in SeqTasks :
        \/ \E p \in Plans : PlanPost(t, p)
        \/ \E s \in SubIds, b \in RenewBodies : SubPost(t, s, b)
        \/ SubPostSave(t)
        \/ SubPostStatus(t)
        \/ \E s \in SubIds : Initiate(t, s)
        \/ \E ck \in CheckoutIds, ok \in BOOLEAN : InitiateStore(t, ck, ok)
        \/ \E ck \in CheckoutIds, rc \in {0, 1} : Callback(t, ck, rc)
        \/ CallbackBill(t)
        \/ CallbackFind(t)
        \/ CallbackPlan(t)
        \/ CallbackSave(t)
        \/ CallbackDelete(t)
        \/ \E s \in SubIds, tx \in TxIds : AdminPay(t, s, tx)
        \/ AdminPayBill(t)
        \/ AdminPayPlan(t)
        \/ AdminPaySave(t)
        \/ Del(t)
        \/ Finish(t)

SpecRenew == Init /\ [][NextRenew]_vars

PayOps == {"Callback", "AdminPay"}

\* C31: once a payment has stored a subscriber's new window, the stored start
\* is the instant the payment was processed at, the stored end is that instant
\* plus the plan's duration, and the start is before the end.
C31_WindowFromPayment ==
    \A t \in Tasks :
        (task[t].op \in PayOps /\ task[t].wrote)
            => LET sub == subs[task[t].doc.id]
               IN  /\ sub.start = task[t].payAt
                   /\ sub.end = task[t].payAt + DurationInMonths(sub.plan)
                   /\ sub.start < sub.end

\* C32: a step of a confirmation whose ResultCode is not zero ends the
\* confirmation with the fixed acknowledgment and leaves the billing records,
\* the subscribers, the rules of the device and the correlation store as they
\* were.
C32_FailedPaymentNoEffect ==
    [][\A t \in Tasks :
          (task'[t] # task[t] /\ task'[t].op = "Callback" /\ task'[t].rc # 0)
              => /\ task'[t].pc = "done"
                 /\ task'[t].res = "ack"
                 /\ UNCHANGED <<billing, subs, clients, rules, pending, storedAt,
                                applied>>]_vars

\* a confirmation with a non-zero ResultCode was acknowledged while the entry
\* of its request is in the store and no billing record exists for it
C32_Witness ==
    \E t \in Tasks :
        /\ task[t].op = "Callback" /\ task[t].rc # 0
        /\ task[t].pc = "done" /\ task[t].res = "ack"
        /\ pending[task[t].ck] # "none"
        /\ billing[task[t].ck] = 0

\* the handlers whose every remote command is sent by setNetworkAccess
SnaCallers ==
    {"setNetworkAccess", "LegacyPost", "LegacyPut", "LegacyDelete", "LegacyCron"}

\* C33: one setNetworkAccess call sends the check command once, before any
\* other command, and at most one add or delete command after it, whether its
\* commands settle or are rejected.
C33_OneProbeOneCommand ==
    \A t \in Tasks :
        task[t].op \in SnaCallers
            => /\ task[t].nProbe <= 1
               /\ task[t].nCmd <= 1
               /\ task[t].pc = "probe" => (task[t].nProbe = 0 /\ task[t].nCmd = 0)
               /\ task[t].pc \in {"add", "del"}
                    => (task[t].nProbe = 1 /\ task[t].nCmd = 0)
               /\ (task[t].key[1] # NoIp /\ task[t].pc # "probe")
                    => task[t].nProbe = 1
               /\ task[t].nCmd = 1 => task[t].nAdd + task[t].nDel <= 1

\* a call went on to its command after a check command whose connection was
\* rejected, and the command was rejected too
C33_Witness ==
    \E t \in Tasks :
        /\ task[t].op \in SnaCallers
        /\ task[t].probeErr
        /\ task[t].nProbe = 1 /\ task[t].nCmd = 1
        /\ task[t].cmd = "rejected"

DeleteOps == {"ClientDelete", "SubDelete", "LegacyDelete"}

\* C34: a delete request that removed its record had no remote command that
\* failed, by a rejected connection or by a non-zero exit status.
C34_FailedCommandKeepsRecord ==
    \A t \in Tasks :
        (task[t].op \in DeleteOps /\ task[t].pc = "done" /\ task[t].res = "ok")
            => task[t].cmd \notin {"rejected", "nonzero"}

\* ----------- subscriber updates at several instants, one call at a time
NextUpdate ==
    \/ Tick
    \/ \E t \in SeqTasks :
        \/ \E p \in Plans : PlanPost(t, p)
        \/ \E s \in SubIds, b \in SubBodies : SubPost(t, s, b)
        \/ SubPostSave(t)
        \/ SubPostStatus(t)
        \/ \E s \in SubIds, b \in SubUpdates : SubPut(t, s, b)
        \/ SubPutSave(t)
        \/ SubPutNew(t)
        \/ SubPutStatus(t)
        \/ Add(t)
        \/ Del(t)
        \/ Finish(t)

SpecUpdate == Init /\ [][NextUpdate]_vars

\* the update has answered with the subscriber, which has an address
UpdateDone(tk) ==
    tk.op = "SubPut" /\ tk.pc = "done" /\ tk.res = "ok" /\ tk.doc.ip # NoIp

\* the unblock of the address the update replaced
OldUnblocks(tk) == IF tk.oldIp # NoIp /\ tk.oldIp # tk.doc.ip THEN 1 ELSE 0

\* C35: after an update of a subscriber with an address has answered, the
\* stored status is 'active' exactly when start <= now <= end, 'inactive'
\* exactly when end < now, 'pending' exactly when now < start and now <= end,
\* for the instant the update read; the current address got one remove-block
\* when the status is 'active' and one add-block otherwise.
C35_UpdateStatus ==
    \A t \in Tasks :
        UpdateDone(task[t])
            => LET sub == subs[task[t].doc.id]
                   n == task[t].callNow
               IN  /\ sub.status = "active" <=> (sub.start <= n /\ sub.end >= n)
                   /\ sub.status = "inactive" <=> sub.end < n
                   /\ sub.status = "pending" <=> (n < sub.start /\ sub.end >= n)
                   /\ sub.status = "active"
                        => (task[t].nAdd = 0 /\ task[t].nDel = OldUnblocks(task[t]) + 1)
                   /\ sub.status # "active"
                        => (task[t].nAdd = 1 /\ task[t].nDel = OldUnblocks(task[t]))

\* an update that replaced the address of a subscriber whose window has not
\* begun has answered: the status is 'pending' and the new address is blocked
C35_Witness ==
    \E t \in Tasks :
        /\ UpdateDone(task[t])
        /\ subs[task[t].doc.id].status = "pending"
        /\ task[t].oldIp # NoIp /\ task[t].oldIp # task[t].doc.ip
        /\ task[t].nAdd = 1 /\ task[t].nDel = 1
        /\ RuleCheck(rules, <<task[t].doc.ip, task[t].doc.id>>)

====
